---- MODULE Spec2Model ----
(***************************************************************************)
(* ctxcache: a context-level cache for func(K) V functions.                *)
(*                                                                         *)
(* The model follows ctxcache.go: a cache (RWMutex, data map, loader),     *)
(* cacheLoader's read-then-upgrade locking, WithCache binding a fresh      *)
(* cache into a context under a FuncID, FromContext and FromContextLoader  *)
(* looking it up through ctx.Value and a checked type assertion.           *)
(***************************************************************************)
EXTENDS Integers, Sequences, FiniteSets, TLC

(* ------------------------------ bounds --------------------------------- *)
NumThreads == 2      \* goroutines calling one cached function
NumCallers == 1      \* goroutines that bind, look up and call
MaxBindKey == 1      \* keys those goroutines call with: 1..MaxBindKey
MaxKey == 2          \* cache keys are 1..MaxKey
MaxCtx == 3          \* context values that exist at once (Background included)
MaxFails == 1        \* loader panics per cache
MaxCalls == 3        \* calls of looked-up functions, over all goroutines

Threads == 1..NumThreads
Callers == 1..NumCallers
BindKeys == 1..MaxBindKey
NoThread == 0
Keys == 1..MaxKey

(* ------------------------------ loaders -------------------------------- *)
Digit == <<"0", "1", "2", "3", "4", "5", "6", "7", "8", "9">>

RECURSIVE FormatUint(_)
FormatUint(n) ==
    IF n < 10 THEN Digit[n + 1]
    ELSE FormatUint(n \div 10) \o Digit[(n % 10) + 1]

\* strconv.FormatInt(n, 10)
FormatInt(n) == IF n < 0 THEN "-" \o FormatUint(0 - n) ELSE FormatUint(n)

\* getNumber is the pure loader of the examples; f stands for a caller's
\* loader with side effects: any value, a different one on each call, or a panic;
\* f2 is a second pure func(int) string, of f's type.
Loaders == {"getNumber", "f", "f2"}
NoLoader == ""
Absent == "absent"
Numbers == {FormatInt(k) : k \in Keys}

\* f2: "cache2-" + string(rune('0'+k))
F2(k) == "cache2-" \o Digit[k + 1]

Values == Numbers \cup {F2(k) : k \in Keys}

\* the K, V a loader instantiates WithCache and FromContextLoader with
TypeOf(l) == IF l = "getNumber" THEN <<"int64", "string">> ELSE <<"int", "string">>
Types == {TypeOf(l) : l \in Loaders}

LoaderResults(l, k) ==
    IF l = "getNumber" THEN {FormatInt(k)}
    ELSE IF l = "f2" THEN {F2(k)}
    ELSE Numbers
CanPanic(l) == l = "f"

(* ------------------------------ contexts ------------------------------- *)
FuncIDs == {"getNumber", "calc"}
NoCtx == 0
NoStore == 0

Background == [kind |-> "background", parent |-> NoCtx, key |-> "", val |-> NoStore]

VARIABLES
    ctxs,      \* the context values created so far; ctxs[1] is context.Background()
    stores,    \* the cache structs created so far: data, loader, lock
    pc,        \* each goroutine's position
    fn,        \* a goroutine's last lookup: the results (the CacheFunc f, and ok),
               \* the context and FuncID it looked up, and the loader it handed
               \* to FromContextLoader
    key,       \* the argument k of the call of fn in progress or last made
    v,         \* cacheLoader's local v
    ret,       \* the value the last call of fn returned
    outcome,   \* how the last call of fn ended: "hit" and "miss" name the return
               \* statement that ended it, "panic" a loader's panic
    loads,     \* loads[s][k]: loader invocations made by cache s for k
    fails,     \* fails[s]: those that panicked
    produced,  \* produced[s][k]: the values those that returned gave
    callers,   \* callers[s]: who called cache s: <<goroutine, context it looked up>>
    asked,     \* asked[s]: keys cache s was called with
    made,      \* made[t]: calls t made of the function it last looked up
    ran,       \* ran[t][l]: invocations of loader l those calls made
    ncalls     \* calls of looked-up functions made so far

vars == <<ctxs, stores, pc, fn, key, v, ret, outcome,
          loads, fails, produced, callers, asked, made, ran, ncalls>>

Ctxs == 1..Len(ctxs)
Stores == 1..Len(stores)

\* a lookup under one key for every cache, as before FuncID: any binding matches
RECURSIVE ValueAnyKey(_, _)
ValueAnyKey(c, id) ==
    IF c = NoCtx THEN NoStore
    ELSE IF ctxs[c].kind = "value" THEN ctxs[c].val
    ELSE ValueAnyKey(ctxs[c].parent, id)

\* a lookup that asks the context itself and not its parents
ValueNoParent(c, id) ==
    IF c # NoCtx /\ ctxs[c].kind = "value" /\ ctxs[c].key = id THEN ctxs[c].val
    ELSE NoStore

\* ctx.Value(ctxKey): the nearest binding of id on the chain from c to Background
RECURSIVE Value(_, _)
Value(c, id) ==
    IF c = NoCtx THEN NoStore
    ELSE IF ctxs[c].kind = "value" /\ ctxs[c].key = id THEN ctxs[c].val
    ELSE Value(ctxs[c].parent, id)

\* a lookup that takes whatever cache is bound, whatever its K and V
TypeAssertAny(s, kv) == s # NoStore

\* cache, ok := ctx.Value(ctxKey).(*cache[K, V])
TypeAssert(s, kv) == s # NoStore /\ TypeOf(stores[s].loader) = kv

NilFunc == [kind |-> "nil", store |-> NoStore, loader |-> ""]
Unset == [kind |-> "unset", store |-> NoStore, loader |-> ""]
CacheLoaderOf(s) == [kind |-> "cache", store |-> s, loader |-> ""]
LoaderFunc(f) == [kind |-> "loader", store |-> NoStore, loader |-> f]

\* FromContext's results <<CacheFunc, bool>>
FromContextResult(c, id, kv) ==
    LET s == Value(c, id) IN
    IF ~TypeAssert(s, kv) THEN <<NilFunc, FALSE>>
    ELSE <<CacheLoaderOf(s), TRUE>>

\* FromContextLoader that does not look into the context
FromContextLoaderNoLookup(c, id, f) == LoaderFunc(f)

\* FromContextLoader's result
FromContextLoaderResult(c, id, f) ==
    LET s == Value(c, id) IN
    IF ~TypeAssert(s, TypeOf(f)) THEN LoaderFunc(f)
    ELSE CacheLoaderOf(s)

NoData == [k \in Keys |-> Absent]
NoCount == [k \in Keys |-> 0]
NoRun == [l \in Loaders |-> 0]

\* &cache[K, V]{loader: f, data: make(map[K]V)}
NewCache(f) == [data |-> NoData, loader |-> f, readers |-> {}, writer |-> NoThread]

Init ==
    /\ ctxs = <<Background>>
    /\ stores = <<>>
    /\ pc = [t \in Threads |-> "idle"]
    /\ fn = [t \in Threads |-> [f |-> Unset, ok |-> <<>>, ctx |-> NoCtx, id |-> "",
                                arg |-> NoLoader]]
    /\ key = [t \in Threads |-> 0]
    /\ v = [t \in Threads |-> Absent]
    /\ ret = [t \in Threads |-> Absent]
    /\ outcome = [t \in Threads |-> "none"]
    /\ loads = <<>>
    /\ fails = <<>>
    /\ produced = <<>>
    /\ callers = <<>>
    /\ asked = <<>>
    /\ made = [t \in Threads |-> 0]
    /\ ran = [t \in Threads |-> NoRun]
    /\ ncalls = 0

threadVars == <<pc, fn, key, v, ret, outcome>>
histVars == <<loads, fails, produced, callers, asked, made, ran>>

(* --------------------------- context binding --------------------------- *)
\* WithCache handing out the cache already bound under ctxKey, when there is one
WithCacheReusing(c, id, f) ==
    /\ Len(ctxs) < MaxCtx
    /\ IF Value(c, id) # NoStore
       THEN /\ ctxs' = Append(ctxs, [kind |-> "value", parent |-> c, key |-> id,
                                     val |-> Value(c, id)])
            /\ UNCHANGED <<stores, histVars>>
       ELSE /\ stores' = Append(stores, NewCache(f))
            /\ ctxs' = Append(ctxs, [kind |-> "value", parent |-> c, key |-> id,
                                     val |-> Len(stores) + 1])
            /\ loads' = Append(loads, NoCount)
            /\ fails' = Append(fails, 0)
            /\ produced' = Append(produced, [k \in Keys |-> {}])
            /\ callers' = Append(callers, {})
            /\ asked' = Append(asked, {})
            /\ UNCHANGED <<made, ran>>
    /\ UNCHANGED <<threadVars, ncalls>>

\* WithCache writing the binding into ctx itself instead of wrapping it
WithCacheInPlace(c, id, f) ==
    /\ Len(stores) < MaxCtx - 1
    /\ stores' = Append(stores, NewCache(f))
    /\ ctxs' = [ctxs EXCEPT ![c] = [kind |-> "value", parent |-> ctxs[c].parent,
                                    key |-> id, val |-> Len(stores) + 1]]
    /\ loads' = Append(loads, NoCount)
    /\ fails' = Append(fails, 0)
    /\ produced' = Append(produced, [k \in Keys |-> {}])
    /\ callers' = Append(callers, {})
    /\ asked' = Append(asked, {})
    /\ UNCHANGED <<threadVars, made, ran, ncalls>>

\* WithCache(ctx, ctxKey, f): a fresh cache under a new valueCtx
WithCache(c, id, f) ==
    /\ Len(ctxs) < MaxCtx
    /\ stores' = Append(stores, NewCache(f))
    /\ ctxs' = Append(ctxs, [kind |-> "value", parent |-> c, key |-> id,
                             val |-> Len(stores) + 1])
    /\ loads' = Append(loads, NoCount)
    /\ fails' = Append(fails, 0)
    /\ produced' = Append(produced, [k \in Keys |-> {}])
    /\ callers' = Append(callers, {})
    /\ asked' = Append(asked, {})
    /\ UNCHANGED <<threadVars, made, ran, ncalls>>

\* context.WithCancel(ctx): a child context that binds nothing
WithCancel(c) ==
    /\ Len(ctxs) < MaxCtx
    /\ ctxs' = Append(ctxs, [kind |-> "cancel", parent |-> c, key |-> "",
                             val |-> NoStore])
    /\ UNCHANGED <<stores, threadVars, histVars, ncalls>>

\* fn, ok := FromContext[K, V](ctx, ctxKey)
FromContext(t, c, id, kv) ==
    /\ pc[t] = "idle"
    /\ fn' = [fn EXCEPT ![t] = [f |-> FromContextResult(c, id, kv)[1],
                                ok |-> <<FromContextResult(c, id, kv)[2]>>,
                                ctx |-> c, id |-> id, arg |-> NoLoader]]
    /\ key' = [key EXCEPT ![t] = 0]
    /\ ret' = [ret EXCEPT ![t] = Absent]
    /\ outcome' = [outcome EXCEPT ![t] = "none"]
    /\ made' = [made EXCEPT ![t] = 0]
    /\ ran' = [ran EXCEPT ![t] = NoRun]
    /\ UNCHANGED <<ctxs, stores, pc, v, loads, fails, produced, callers, asked, ncalls>>

\* loader := FromContextLoader(ctx, ctxKey, f)
FromContextLoader(t, c, id, f) ==
    /\ pc[t] = "idle"
    /\ fn' = [fn EXCEPT ![t] = [f |-> FromContextLoaderResult(c, id, f),
                                ok |-> <<>>, ctx |-> c, id |-> id, arg |-> f]]
    /\ key' = [key EXCEPT ![t] = 0]
    /\ ret' = [ret EXCEPT ![t] = Absent]
    /\ outcome' = [outcome EXCEPT ![t] = "none"]
    /\ made' = [made EXCEPT ![t] = 0]
    /\ ran' = [ran EXCEPT ![t] = NoRun]
    /\ UNCHANGED <<ctxs, stores, pc, v, loads, fails, produced, callers, asked, ncalls>>

(* ------------------------------ cacheLoader ---------------------------- *)
Self(t) == fn[t].f.store

\* a fallback function that remembers its last result: called again with the
\* key it was last called with, it answers without running the loader
CallMemo(t, k) ==
    /\ pc[t] = "idle"
    /\ fn[t].f.kind \in {"cache", "loader"}
    /\ ncalls < MaxCalls
    /\ ncalls' = ncalls + 1
    /\ made' = [made EXCEPT ![t] = @ + 1]
    /\ IF fn[t].f.kind = "loader" /\ key[t] = k /\ outcome[t] = "direct"
       THEN UNCHANGED <<pc, key, ret, outcome, callers, asked>>
       ELSE /\ key' = [key EXCEPT ![t] = k]
            /\ ret' = [ret EXCEPT ![t] = Absent]
            /\ outcome' = [outcome EXCEPT ![t] = "none"]
            /\ IF fn[t].f.kind = "cache"
               THEN /\ pc' = [pc EXCEPT ![t] = "rlock"]
                    /\ callers' = [callers EXCEPT ![Self(t)] = @ \cup {<<t, fn[t].ctx>>}]
                    /\ asked' = [asked EXCEPT ![Self(t)] = @ \cup {k}]
               ELSE /\ pc' = [pc EXCEPT ![t] = "direct"]
                    /\ UNCHANGED <<callers, asked>>
    /\ UNCHANGED <<ctxs, stores, fn, v, loads, fails, produced, ran>>

\* calling the resolved CacheFunc with k
Call(t, k) ==
    /\ pc[t] = "idle"
    /\ fn[t].f.kind \in {"cache", "loader"}
    /\ ncalls < MaxCalls
    /\ ncalls' = ncalls + 1
    /\ made' = [made EXCEPT ![t] = @ + 1]
    /\ key' = [key EXCEPT ![t] = k]
    /\ ret' = [ret EXCEPT ![t] = Absent]
    /\ outcome' = [outcome EXCEPT ![t] = "none"]
    /\ IF fn[t].f.kind = "cache"
       THEN /\ pc' = [pc EXCEPT ![t] = "rlock"]
            /\ callers' = [callers EXCEPT ![Self(t)] = @ \cup {<<t, fn[t].ctx>>}]
            /\ asked' = [asked EXCEPT ![Self(t)] = @ \cup {k}]
       ELSE /\ pc' = [pc EXCEPT ![t] = "direct"]
            /\ UNCHANGED <<callers, asked>>
    /\ UNCHANGED <<ctxs, stores, fn, v, loads, fails, produced, ran>>

\* c.lock.RLock()
RLock(t) ==
    /\ pc[t] = "rlock"
    /\ stores[Self(t)].writer = NoThread
    /\ stores' = [stores EXCEPT ![Self(t)].readers = @ \cup {t}]
    /\ pc' = [pc EXCEPT ![t] = "read"]
    /\ UNCHANGED <<ctxs, fn, key, v, ret, outcome, histVars, ncalls>>

\* cacheLoader refreshing a present entry: it takes the miss path on a hit
ReadHitRefresh(t) ==
    /\ pc[t] = "read"
    /\ stores[Self(t)].data[key[t]] # Absent
    /\ stores' = [stores EXCEPT ![Self(t)].readers = @ \ {t}]
    /\ pc' = [pc EXCEPT ![t] = "lock"]
    /\ UNCHANGED <<ctxs, fn, key, v, ret, outcome, histVars, ncalls>>

\* cacheLoader handing an entry out once: a hit takes k out of data
ReadHitConsumes(t) ==
    /\ pc[t] = "read"
    /\ stores[Self(t)].data[key[t]] # Absent
    /\ stores' = [stores EXCEPT ![Self(t)].readers = @ \ {t},
                                ![Self(t)].data[key[t]] = Absent]
    /\ ret' = [ret EXCEPT ![t] = stores[Self(t)].data[key[t]]]
    /\ outcome' = [outcome EXCEPT ![t] = "hit"]
    /\ pc' = [pc EXCEPT ![t] = "idle"]
    /\ UNCHANGED <<ctxs, fn, key, v, histVars, ncalls>>

\* v, ok := c.data[k]; ok: c.lock.RUnlock(); return v
ReadHit(t) ==
    /\ pc[t] = "read"
    /\ stores[Self(t)].data[key[t]] # Absent
    /\ stores' = [stores EXCEPT ![Self(t)].readers = @ \ {t}]
    /\ ret' = [ret EXCEPT ![t] = stores[Self(t)].data[key[t]]]
    /\ outcome' = [outcome EXCEPT ![t] = "hit"]
    /\ pc' = [pc EXCEPT ![t] = "idle"]
    /\ UNCHANGED <<ctxs, fn, key, v, histVars, ncalls>>

\* cacheLoader taking the miss path whether or not k is present
ReadMissAlways(t) ==
    /\ pc[t] = "read"
    /\ stores' = [stores EXCEPT ![Self(t)].readers = @ \ {t}]
    /\ pc' = [pc EXCEPT ![t] = "lock"]
    /\ UNCHANGED <<ctxs, fn, key, v, ret, outcome, histVars, ncalls>>

\* cacheLoader going for the exclusive lock while it still holds the shared one
ReadMissNoRUnlock(t) ==
    /\ pc[t] = "read"
    /\ stores[Self(t)].data[key[t]] = Absent
    /\ pc' = [pc EXCEPT ![t] = "lock"]
    /\ UNCHANGED <<ctxs, stores, fn, key, v, ret, outcome, histVars, ncalls>>

\* v, ok := c.data[k]; !ok: c.lock.RUnlock()
ReadMiss(t) ==
    /\ pc[t] = "read"
    /\ stores[Self(t)].data[key[t]] = Absent
    /\ stores' = [stores EXCEPT ![Self(t)].readers = @ \ {t}]
    /\ pc' = [pc EXCEPT ![t] = "lock"]
    /\ UNCHANGED <<ctxs, fn, key, v, ret, outcome, histVars, ncalls>>

\* cacheLoader locking by k: a miss waits only for a miss on the same key
LockPerKey(t) ==
    /\ pc[t] = "lock"
    /\ \A u \in Threads \ {t} :
           ~(pc[u] \in {"inLoader", "store"} /\ Self(u) = Self(t) /\ key[u] = key[t])
    /\ stores[Self(t)].readers = {}
    /\ stores' = [stores EXCEPT ![Self(t)].writer = t]
    /\ loads' = [loads EXCEPT ![Self(t)][key[t]] = @ + 1]
    /\ ran' = [ran EXCEPT ![t][stores[Self(t)].loader] = @ + 1]
    /\ pc' = [pc EXCEPT ![t] = "inLoader"]
    /\ UNCHANGED <<ctxs, fn, key, v, ret, outcome, fails, produced, callers, asked,
                   made, ncalls>>

\* cacheLoader looking at c.data[k] again once it holds the exclusive lock
LockRecheck(t) ==
    /\ pc[t] = "lock"
    /\ stores[Self(t)].writer = NoThread
    /\ stores[Self(t)].readers = {}
    /\ IF stores[Self(t)].data[key[t]] # Absent
       THEN /\ ret' = [ret EXCEPT ![t] = stores[Self(t)].data[key[t]]]
            /\ outcome' = [outcome EXCEPT ![t] = "hit"]
            /\ pc' = [pc EXCEPT ![t] = "idle"]
            /\ UNCHANGED <<stores, loads, ran>>
       ELSE /\ stores' = [stores EXCEPT ![Self(t)].writer = t]
            /\ loads' = [loads EXCEPT ![Self(t)][key[t]] = @ + 1]
            /\ ran' = [ran EXCEPT ![t][stores[Self(t)].loader] = @ + 1]
            /\ pc' = [pc EXCEPT ![t] = "inLoader"]
            /\ UNCHANGED <<ret, outcome>>
    /\ UNCHANGED <<ctxs, fn, key, v, fails, produced, callers, asked, made, ncalls>>

\* c.lock.Lock(); defer c.lock.Unlock(); v = c.loader(k): the call
Lock(t) ==
    /\ pc[t] = "lock"
    /\ stores[Self(t)].writer = NoThread
    /\ stores[Self(t)].readers = {}
    /\ stores' = [stores EXCEPT ![Self(t)].writer = t]
    /\ loads' = [loads EXCEPT ![Self(t)][key[t]] = @ + 1]
    /\ ran' = [ran EXCEPT ![t][stores[Self(t)].loader] = @ + 1]
    /\ pc' = [pc EXCEPT ![t] = "inLoader"]
    /\ UNCHANGED <<ctxs, fn, key, v, ret, outcome, fails, produced, callers, asked,
                   made, ncalls>>

\* v = c.loader(k): the loader returns val
LoaderReturn(t, val) ==
    /\ pc[t] = "inLoader"
    /\ val \in LoaderResults(stores[Self(t)].loader, key[t])
    /\ v' = [v EXCEPT ![t] = val]
    /\ produced' = [produced EXCEPT ![Self(t)][key[t]] = @ \cup {val}]
    /\ pc' = [pc EXCEPT ![t] = "store"]
    /\ UNCHANGED <<ctxs, stores, fn, key, ret, outcome, loads, fails,
                   callers, asked,
                   made, ran, ncalls>>

\* cacheLoader with c.lock.Unlock() not deferred: a panic leaves the lock held
LoaderPanicKeepsLock(t) ==
    /\ pc[t] = "inLoader"
    /\ CanPanic(stores[Self(t)].loader)
    /\ fails[Self(t)] < MaxFails
    /\ fails' = [fails EXCEPT ![Self(t)] = @ + 1]
    /\ outcome' = [outcome EXCEPT ![t] = "panic"]
    /\ pc' = [pc EXCEPT ![t] = "idle"]
    /\ UNCHANGED <<ctxs, stores, fn, key, v, ret, loads, produced, callers, asked,
                   made, ran, ncalls>>

\* cacheLoader recovering from the panic and storing V's zero value
LoaderPanicStoresZero(t) ==
    /\ pc[t] = "inLoader"
    /\ CanPanic(stores[Self(t)].loader)
    /\ fails[Self(t)] < MaxFails
    /\ fails' = [fails EXCEPT ![Self(t)] = @ + 1]
    /\ stores' = [stores EXCEPT ![Self(t)].data[key[t]] = "",
                                ![Self(t)].writer = NoThread]
    /\ outcome' = [outcome EXCEPT ![t] = "panic"]
    /\ pc' = [pc EXCEPT ![t] = "idle"]
    /\ UNCHANGED <<ctxs, fn, key, v, ret, loads, produced, callers, asked,
                   made, ran, ncalls>>

\* v = c.loader(k): the loader panics; the deferred Unlock runs and the panic
\* reaches the caller
LoaderPanic(t) ==
    /\ pc[t] = "inLoader"
    /\ CanPanic(stores[Self(t)].loader)
    /\ fails[Self(t)] < MaxFails
    /\ fails' = [fails EXCEPT ![Self(t)] = @ + 1]
    /\ stores' = [stores EXCEPT ![Self(t)].writer = NoThread]
    /\ outcome' = [outcome EXCEPT ![t] = "panic"]
    /\ pc' = [pc EXCEPT ![t] = "idle"]
    /\ UNCHANGED <<ctxs, fn, key, v, ret, loads, produced, callers, asked,
                   made, ran, ncalls>>

\* cacheLoader without c.data[k] = v
StoreNoWrite(t) ==
    /\ pc[t] = "store"
    /\ stores' = [stores EXCEPT ![Self(t)].writer = NoThread]
    /\ ret' = [ret EXCEPT ![t] = v[t]]
    /\ v' = [v EXCEPT ![t] = Absent]
    /\ outcome' = [outcome EXCEPT ![t] = "miss"]
    /\ pc' = [pc EXCEPT ![t] = "idle"]
    /\ UNCHANGED <<ctxs, fn, key, histVars, ncalls>>

\* cacheLoader storing under one fixed key: c.data[1] = v
StoreFirstKey(t) ==
    /\ pc[t] = "store"
    /\ stores' = [stores EXCEPT ![Self(t)].data[1] = v[t],
                                ![Self(t)].writer = NoThread]
    /\ ret' = [ret EXCEPT ![t] = v[t]]
    /\ v' = [v EXCEPT ![t] = Absent]
    /\ outcome' = [outcome EXCEPT ![t] = "miss"]
    /\ pc' = [pc EXCEPT ![t] = "idle"]
    /\ UNCHANGED <<ctxs, fn, key, histVars, ncalls>>

\* cacheLoader keeping one entry: storing k drops the other keys
StoreEvicting(t) ==
    /\ pc[t] = "store"
    /\ stores' = [stores EXCEPT ![Self(t)].data = [NoData EXCEPT ![key[t]] = v[t]],
                                ![Self(t)].writer = NoThread]
    /\ ret' = [ret EXCEPT ![t] = v[t]]
    /\ v' = [v EXCEPT ![t] = Absent]
    /\ outcome' = [outcome EXCEPT ![t] = "miss"]
    /\ pc' = [pc EXCEPT ![t] = "idle"]
    /\ UNCHANGED <<ctxs, fn, key, histVars, ncalls>>

\* c.data[k] = v; return v, and the deferred c.lock.Unlock()
Store(t) ==
    /\ pc[t] = "store"
    /\ stores' = [stores EXCEPT ![Self(t)].data[key[t]] = v[t],
                                ![Self(t)].writer = NoThread]
    /\ ret' = [ret EXCEPT ![t] = v[t]]
    /\ v' = [v EXCEPT ![t] = Absent]
    /\ outcome' = [outcome EXCEPT ![t] = "miss"]
    /\ pc' = [pc EXCEPT ![t] = "idle"]
    /\ UNCHANGED <<ctxs, fn, key, histVars, ncalls>>

(* ------------------- the loader FromContextLoader falls back to -------- *)
\* f(k) returns val: nothing is cached
DirectReturn(t, val) ==
    /\ pc[t] = "direct"
    /\ val \in LoaderResults(fn[t].f.loader, key[t])
    /\ ret' = [ret EXCEPT ![t] = val]
    /\ outcome' = [outcome EXCEPT ![t] = "direct"]
    /\ pc' = [pc EXCEPT ![t] = "idle"]
    /\ ran' = [ran EXCEPT ![t][fn[t].f.loader] = @ + 1]
    /\ UNCHANGED <<ctxs, stores, fn, key, v, loads, fails, produced, callers, asked,
                   made, ncalls>>

\* f(k) panics
DirectPanic(t) ==
    /\ pc[t] = "direct"
    /\ CanPanic(fn[t].f.loader)
    /\ outcome' = [outcome EXCEPT ![t] = "panic"]
    /\ pc' = [pc EXCEPT ![t] = "idle"]
    /\ ran' = [ran EXCEPT ![t][fn[t].f.loader] = @ + 1]
    /\ UNCHANGED <<ctxs, stores, fn, key, v, ret, loads, fails, produced, callers,
                   asked, made, ncalls>>

Next ==
    \/ \E c \in Ctxs, id \in FuncIDs, f \in Loaders : WithCache(c, id, f)
    \/ \E c \in Ctxs : WithCancel(c)
    \/ \E t \in Callers, c \in Ctxs, id \in FuncIDs, kv \in Types :
           FromContext(t, c, id, kv)
    \/ \E t \in Callers, c \in Ctxs, id \in FuncIDs, f \in Loaders :
           FromContextLoader(t, c, id, f)
    \/ \E t \in Callers, k \in BindKeys : Call(t, k)
    \/ \E t \in Callers : RLock(t)
    \/ \E t \in Callers : ReadHit(t)
    \/ \E t \in Callers : ReadMiss(t)
    \/ \E t \in Callers : Lock(t)
    \/ \E t \in Callers, val \in Values : LoaderReturn(t, val)
    \/ \E t \in Callers : LoaderPanic(t)
    \/ \E t \in Callers : Store(t)
    \/ \E t \in Callers, val \in Values : DirectReturn(t, val)
    \/ \E t \in Callers : DirectPanic(t)

Spec == Init /\ [][Next]_vars

(* ------- one function, bound, looked up and called with every key ------ *)
\* the binding, lookup and call steps of Spec for the identifier "getNumber" and
\* the loader f, with calls for every key
NextKeys ==
    \/ \E c \in Ctxs : WithCache(c, "getNumber", "f")
    \/ \E c \in Ctxs : WithCancel(c)
    \/ \E t \in Callers, c \in Ctxs, kv \in Types : FromContext(t, c, "getNumber", kv)
    \/ \E t \in Callers, c \in Ctxs : FromContextLoader(t, c, "getNumber", "f")
    \/ \E t \in Callers, k \in Keys : Call(t, k)
    \/ \E t \in Callers : RLock(t)
    \/ \E t \in Callers : ReadHit(t)
    \/ \E t \in Callers : ReadMiss(t)
    \/ \E t \in Callers : Lock(t)
    \/ \E t \in Callers, val \in Values : LoaderReturn(t, val)
    \/ \E t \in Callers : LoaderPanic(t)
    \/ \E t \in Callers : Store(t)
    \/ \E t \in Callers, val \in Values : DirectReturn(t, val)
    \/ \E t \in Callers : DirectPanic(t)

SpecKeys == Init /\ [][NextKeys]_vars

(* ------------- goroutines sharing one cached function ------------------ *)
\* ctx = WithCache(context.Background(), id, f); fn, _ := FromContext(ctx, id);
\* then every goroutine calls fn
InitStore ==
    \E id \in {"getNumber"}, f \in Loaders :
        /\ ctxs = <<Background,
                    [kind |-> "value", parent |-> 1, key |-> id, val |-> 1]>>
        /\ stores = <<NewCache(f)>>
        /\ pc = [t \in Threads |-> "idle"]
        /\ fn = [t \in Threads |-> [f |-> CacheLoaderOf(1), ok |-> <<TRUE>>,
                                    ctx |-> 2, id |-> id, arg |-> NoLoader]]
        /\ key = [t \in Threads |-> 0]
        /\ v = [t \in Threads |-> Absent]
        /\ ret = [t \in Threads |-> Absent]
        /\ outcome = [t \in Threads |-> "none"]
        /\ loads = <<NoCount>>
        /\ fails = <<0>>
        /\ produced = <<[k \in Keys |-> {}]>>
        /\ callers = <<{}>>
        /\ asked = <<{}>>
        /\ made = [t \in Threads |-> 0]
        /\ ran = [t \in Threads |-> NoRun]
        /\ ncalls = 0

NextStore ==
    \/ \E t \in Threads, k \in Keys : Call(t, k)
    \/ \E t \in Threads : RLock(t)
    \/ \E t \in Threads : ReadHit(t)
    \/ \E t \in Threads : ReadMiss(t)
    \/ \E t \in Threads : Lock(t)
    \/ \E t \in Threads, val \in Values : LoaderReturn(t, val)
    \/ \E t \in Threads : LoaderPanic(t)
    \/ \E t \in Threads : Store(t)

SpecStore == InitStore /\ [][NextStore]_vars

\* a goroutine inside cacheLoader is scheduled: it takes a lock that stays free,
\* and the loader it called returns or panics. Nothing obliges it to call.
FairStore ==
    \A t \in Threads :
        /\ WF_vars(RLock(t))
        /\ WF_vars(ReadHit(t))
        /\ WF_vars(ReadMiss(t))
        /\ WF_vars(Lock(t))
        /\ WF_vars((\E val \in Values : LoaderReturn(t, val)) \/ LoaderPanic(t))
        /\ WF_vars(Store(t))

SpecStoreFair == SpecStore /\ FairStore

(* ======================= properties of the cache ======================= *)
Data(s) == stores[s].data
CallersOf(s) == {c[1] : c \in callers[s]}
SingleCaller(s) == Cardinality(CallersOf(s)) <= 1

\* goroutine t is inside cacheLoader(k) of cache s
InCall(t, s, k) ==
    /\ pc[t] \in {"rlock", "read", "lock", "inLoader", "store"}
    /\ Self(t) = s
    /\ key[t] = k

\* t's last call of cache s was with k and returned
Returned(t, s, k) ==
    /\ pc[t] = "idle"
    /\ outcome[t] \in {"hit", "miss"}
    /\ Self(t) = s
    /\ key[t] = k

\* calls that found k absent and have not finished
Upgrading(s, k) == {t \in Threads : InCall(t, s, k) /\ pc[t] \in {"lock", "inLoader", "store"}}

RECURSIVE Sum(_, _)
Sum(count, n) == IF n = 0 THEN 0 ELSE count[n] + Sum(count, n - 1)

\* C1: one goroutine calling cacheLoader(k) again and again, with a loader that
\* returns: the loader runs once for k, on the first call, and every call returns
\* the value that one invocation gave.
C1_TwiceInSequence ==
    \A s \in Stores, k \in Keys :
        (SingleCaller(s) /\ fails[s] = 0) =>
            /\ loads[s][k] <= 1
            /\ \A t \in Threads : Returned(t, s, k) =>
                   /\ loads[s][k] = 1
                   /\ produced[s][k] = {ret[t]}

\* the second call of an impure loader's cache has returned, as a hit
C1_Witness ==
    \E t \in Threads, k \in Keys :
        /\ CallersOf(1) = {t}
        /\ stores[1].loader = "f"
        /\ fails[1] = 0
        /\ Returned(t, 1, k)
        /\ outcome[t] = "hit"
        /\ loads[1][k] = 1
        /\ ret[t] = Data(1)[k]

\* C2: over any calls, concurrent ones included, the loader runs at most once per
\* key (stated for loaders that return, so that a retry after a panic is not
\* what refutes it).
C2_AtMostOncePerKey ==
    \A s \in Stores, k \in Keys : fails[s] = 0 => loads[s][k] <= 1

\* C3: write-once per key: a value stored under k is never replaced.
C3_WriteOnce ==
    [][\A s \in Stores, k \in Keys :
          Data(s)[k] # Absent => stores'[s].data[k] = Data(s)[k]]_vars

\* k is present and no call that found it absent is still under way
Stable(s, k) == Data(s)[k] # Absent /\ Upgrading(s, k) = {}

C4_StateInv ==
    \A s \in Stores, k \in Keys :
        /\ Data(s)[k] # Absent => Data(s)[k] \in produced[s][k]
        /\ \A t \in Threads : Returned(t, s, k) => Data(s)[k] # Absent

C4_Step ==
    \A s \in Stores, k \in Keys :
        Stable(s, k) =>
            /\ Stable(s, k)'
            /\ stores'[s].data[k] = Data(s)[k]
            /\ loads'[s][k] = loads[s][k]
            /\ \A t \in Threads :
                   (InCall(t, s, k) /\ pc'[t] = "idle") =>
                       /\ outcome'[t] = "hit"
                       /\ ret'[t] = Data(s)[k]

\* C4: concurrent misses on k may run the loader more than once, but once the
\* calls that found k absent have finished, k holds one value, a value some
\* loader(k) invocation returned, and from then on that value stays, the loader
\* is not run for k again and every call for k returns it as a hit.
C4_SettlesAfterConcurrentMisses == [](C4_StateInv) /\ [][C4_Step]_vars

\* two misses ran the loader twice with different results, all calls are over,
\* and a call made afterwards hit the value left in the map
C4_Witness ==
    \E k \in Keys :
        /\ loads[1][k] >= 2
        /\ fails[1] = 0
        /\ Cardinality(produced[1][k]) = 2
        /\ \A t \in Threads : pc[t] = "idle"
        /\ \E t \in Threads :
               Returned(t, 1, k) /\ outcome[t] = "hit" /\ ret[t] = Data(1)[k]

C5_StateInv ==
    \A s \in Stores :
        /\ stores[s].writer # NoThread =>
               /\ pc[stores[s].writer] \in {"inLoader", "store"}
               /\ Self(stores[s].writer) = s
        /\ \A k \in Keys : Data(s)[k] # Absent => Data(s)[k] \in produced[s][k]

C5_Step ==
    \A t \in Threads :
        (pc[t] = "inLoader" /\ pc'[t] = "idle") =>
            /\ outcome'[t] = "panic"
            /\ ret'[t] = Absent
            /\ stores'[Self(t)].data = Data(Self(t))
            /\ stores'[Self(t)].writer = NoThread
            /\ loads' = loads

\* C5: a loader panic ends the call with the panic and no value, leaves the map
\* as it was (k is not populated), and releases the exclusive lock: no finished
\* call holds the lock, and every entry is a value a loader invocation returned.
C5_LoaderPanicLeavesKeyAbsent == [](C5_StateInv) /\ [][C5_Step]_vars

\* the loader panicked on k, and the same goroutine's next call for k ran it
\* again, stored the result and released the lock
C5_Witness ==
    \E t \in Threads, k \in Keys :
        /\ CallersOf(1) = {t}
        /\ fails[1] = 1
        /\ loads[1][k] = 2
        /\ Returned(t, 1, k)
        /\ outcome[t] = "miss"
        /\ Data(1)[k] = ret[t]
        /\ stores[1].writer = NoThread

\* C6: one goroutine, a loader that returns: the loader has run once for each key
\* asked for and for no other, each entry is what the loader gave for its own
\* key, and each call returns the entry of its own key.
C6_OneLoadPerDistinctKey ==
    \A s \in Stores :
        (SingleCaller(s) /\ fails[s] = 0) =>
            /\ (\A t \in Threads : pc[t] = "idle") =>
                   Sum(loads[s], MaxKey) = Cardinality(asked[s])
            /\ \A k \in Keys :
                   /\ loads[s][k] <= 1
                   /\ loads[s][k] = 1 => k \in asked[s]
                   /\ Data(s)[k] # Absent =>
                          /\ produced[s][k] = {Data(s)[k]}
                          /\ Data(s)[k] \in LoaderResults(stores[s].loader, k)
                   /\ \A t \in Threads : Returned(t, s, k) => ret[t] = Data(s)[k]

\* getNumber cached for 1 and 2 by two invocations, and a later call with 1 hit "1"
C6_Witness ==
    \E t \in Threads :
        /\ CallersOf(1) = {t}
        /\ stores[1].loader = "getNumber"
        /\ asked[1] = {1, 2}
        /\ Sum(loads[1], MaxKey) = 2
        /\ Returned(t, 1, 1)
        /\ outcome[t] = "hit"
        /\ ret[t] = "1"
        /\ Data(1)[2] = "2"

(* ================== properties of the context binding ================== *)
\* the contexts from c up to Background
RECURSIVE Chain(_)
Chain(c) == IF c = NoCtx THEN <<>> ELSE <<c>> \o Chain(ctxs[c].parent)

Binds(n, id) == ctxs[n].kind = "value" /\ ctxs[n].key = id

\* the context nearest to c, on its chain, that binds id; NoCtx when none does
Nearest(c, id) ==
    LET ch == Chain(c)
        at == {i \in 1..Len(ch) : Binds(ch[i], id)}
    IN  IF at = {} THEN NoCtx ELSE ch[CHOOSE i \in at : \A j \in at : i <= j]

BindingCtxs == {n \in Ctxs : ctxs[n].kind = "value"}

C7_StateInv ==
    /\ \A n \in BindingCtxs : ctxs[n].val \in Stores
    /\ \A n, m \in BindingCtxs : n # m => ctxs[n].val # ctxs[m].val

C7_Step ==
    /\ (Len(ctxs') > Len(ctxs) /\ ctxs'[Len(ctxs')].kind = "value") =>
           /\ Len(stores') = Len(stores) + 1
           /\ ctxs'[Len(ctxs')].val = Len(stores')
           /\ stores'[Len(stores')].data = NoData
           /\ stores'[Len(stores')].writer = NoThread
           /\ stores'[Len(stores')].readers = {}
           /\ \A s \in Stores : stores'[s] = stores[s]
           /\ \A c \in Ctxs, id \in FuncIDs : Value(c, id)' = Value(c, id)
           /\ \A n \in 1..MaxCtx, id \in FuncIDs :
                  (n = Len(ctxs') /\ id = ctxs'[n].key) => Value(n, id)' = Len(stores')
    /\ \A s \in Stores :
           stores'[s].data # Data(s) =>
               \E t \in Threads : pc[t] = "store" /\ Self(t) = s /\ pc'[t] = "idle"

\* C7: every WithCache makes a cache of its own, empty and unlocked, bound by the
\* new context only: no two bindings share a cache, the caches and lookups that
\* existed stay as they were, and a cache's map changes only by a call of that
\* very cache, so an entry cached through one binding is not one of any other.
C7_BindCreatesFreshStore == [](C7_StateInv) /\ [][C7_Step]_vars

\* the identifier bound twice with the same loader, the second on top of the
\* first: key 1 is cached in the first cache, and the call looked up through the
\* second context still missed and ran the loader
C7_Witness ==
    \E t \in Threads :
        /\ Len(ctxs) >= 3 /\ Len(stores) >= 2
        /\ ctxs[2].kind = "value" /\ ctxs[3].kind = "value"
        /\ ctxs[3].parent = 2
        /\ ctxs[3].key = ctxs[2].key
        /\ stores[1].loader = stores[2].loader
        /\ Data(1)[1] # Absent
        /\ fn[t].ctx = 3
        /\ fn[t].f = CacheLoaderOf(2)
        /\ Returned(t, 2, 1)
        /\ outcome[t] = "miss"
        /\ fails[2] = 0
        /\ Value(2, ctxs[2].key) = 1

C8_StateInv ==
    \A c \in Ctxs :
        /\ ctxs[c].parent < c
        /\ \A id \in FuncIDs :
               Value(c, id) # NoStore =>
                   \E i \in 1..Len(Chain(c)) :
                       Binds(Chain(c)[i], id) /\ ctxs[Chain(c)[i]].val = Value(c, id)

\* (a step that leaves ctxs and stores alone leaves every lookup alone)
C8_Step ==
    \/ ctxs' = ctxs /\ stores' = stores
    \/ \A c \in Ctxs :
           /\ ctxs'[c] = ctxs[c]
           /\ \A id \in FuncIDs :
                  /\ Value(c, id)' = Value(c, id)
                  /\ \A kv \in Types :
                         FromContextResult(c, id, kv)' = FromContextResult(c, id, kv)

\* C8: no step changes a context that exists or what a lookup through it gives,
\* so the context handed to WithCache resolves after the call as before it; and
\* a context sees only the bindings of its own chain, never a child's.
C8_BindLeavesInputContext == [](C8_StateInv) /\ [][C8_Step]_vars

\* WithCache bound an identifier on top of a context that does not bind it, and
\* the lookup of that identifier in the original context is still not found
C8_Witness ==
    \E t \in Threads, n \in BindingCtxs :
        /\ fn[t].ctx = ctxs[n].parent
        /\ fn[t].id = ctxs[n].key
        /\ fn[t].f = NilFunc
        /\ fn[t].ok = <<FALSE>>
        /\ Nearest(ctxs[n].parent, ctxs[n].key) = NoCtx
        /\ FromContextResult(ctxs[n].parent, ctxs[n].key,
                             TypeOf(stores[ctxs[n].val].loader)) = <<NilFunc, FALSE>>

\* C9: a lookup of id, with the types of the bound loader, through the binding
\* context or any context below it up to the next binding of id, is found and
\* gives the cacheLoader of that one cache; so do the functions goroutines hold;
\* and however one goroutine came by its functions, a loader that returns runs
\* at most once per key of a cache.
C9_DescendantsShareStore ==
    /\ \A n \in BindingCtxs, c \in Ctxs :
           Nearest(c, ctxs[n].key) = n =>
               /\ FromContextResult(c, ctxs[n].key, TypeOf(stores[ctxs[n].val].loader))
                      = <<CacheLoaderOf(ctxs[n].val), TRUE>>
               /\ FromContextLoaderResult(c, ctxs[n].key, stores[ctxs[n].val].loader)
                      = CacheLoaderOf(ctxs[n].val)
    /\ \A t \in Threads :
           fn[t].f.kind = "cache" =>
               /\ Nearest(fn[t].ctx, fn[t].id) # NoCtx
               /\ fn[t].f.store = ctxs[Nearest(fn[t].ctx, fn[t].id)].val
               /\ fn[t].ok \in {<<>>, <<TRUE>>}
    /\ \A s \in Stores, k \in Keys :
           (SingleCaller(s) /\ fails[s] = 0) => loads[s][k] <= 1

\* one cache was called through the binding context and through a WithCancel
\* child of it; the loader ran once, and the call through the child's function
\* was a hit
C9_Witness ==
    \E t \in Threads, k \in Keys :
        /\ Len(ctxs) >= 3
        /\ ctxs[2].kind = "value"
        /\ ctxs[3].kind = "cancel" /\ ctxs[3].parent = 2
        /\ fn[t].ctx = 3
        /\ fn[t].ok = <<TRUE>>
        /\ fn[t].f = CacheLoaderOf(1)
        /\ callers[1] = {<<t, 2>>, <<t, 3>>}
        /\ Returned(t, 1, k)
        /\ outcome[t] = "hit"
        /\ loads[1][k] = 1
        /\ fails[1] = 0

C10_StateInv ==
    /\ \A c \in Ctxs, id \in FuncIDs, kv \in Types :
           Nearest(c, id) = NoCtx => FromContextResult(c, id, kv) = <<NilFunc, FALSE>>
    /\ \A t \in Threads :
           (fn[t].ctx # NoCtx /\ Len(fn[t].ok) = 1 /\ Nearest(fn[t].ctx, fn[t].id) = NoCtx) =>
               /\ fn[t].f = NilFunc
               /\ fn[t].ok = <<FALSE>>

C10_Step ==
    \A t \in Threads : fn'[t] # fn[t] => (ctxs' = ctxs /\ stores' = stores)

\* C10: FromContext of an identifier that no context of the chain binds gives the
\* nil function and false, and a lookup creates no cache and changes no context.
C10_UnboundLookupNotFound == [](C10_StateInv) /\ [][C10_Step]_vars

\* the chain binds another identifier, and the lookup of the one it never bound
\* came back nil and false
C10_Witness ==
    \E t \in Threads :
        /\ fn[t].ctx # NoCtx
        /\ Nearest(fn[t].ctx, fn[t].id) = NoCtx
        /\ \E id \in FuncIDs : Nearest(fn[t].ctx, id) # NoCtx
        /\ fn[t].f = NilFunc
        /\ fn[t].ok = <<FALSE>>

\* the loader of the cache a lookup of id through c reaches
BoundLoader(c, id) == stores[Value(c, id)].loader

C11_StateInv ==
    /\ \A c \in Ctxs, id \in FuncIDs :
           Value(c, id) # NoStore =>
               /\ \A kv \in Types :
                      kv # TypeOf(BoundLoader(c, id)) =>
                          FromContextResult(c, id, kv) = <<NilFunc, FALSE>>
               /\ \A f \in Loaders :
                      TypeOf(f) # TypeOf(BoundLoader(c, id)) =>
                          FromContextLoaderResult(c, id, f) = LoaderFunc(f)
    /\ \A t \in Threads :
           /\ fn[t].ok = <<FALSE>> => fn[t].f = NilFunc
           /\ (/\ fn[t].arg # NoLoader
               /\ Value(fn[t].ctx, fn[t].id) # NoStore
               /\ TypeOf(fn[t].arg) # TypeOf(BoundLoader(fn[t].ctx, fn[t].id)))
                  => fn[t].f = LoaderFunc(fn[t].arg)

C11_Step ==
    \A t \in Threads :
        fn'[t] # fn[t] =>
            /\ stores' = stores
            /\ pc'[t] = "idle"
            /\ outcome'[t] = "none"

\* C11: a lookup of an identifier bound with other key and value types gives what
\* a lookup of an unbound identifier gives: FromContext the nil function and
\* false, FromContextLoader the loader it was handed; the lookup ends without a
\* panic and leaves every cache, the bound one included, as it was.
C11_TypeMismatchNotFound == [](C11_StateInv) /\ [][C11_Step]_vars

\* a cache holding an entry was looked up with the wrong types: not found, and
\* the entry is still there
C11_Witness ==
    \E t \in Threads :
        /\ fn[t].ctx # NoCtx
        /\ Value(fn[t].ctx, fn[t].id) # NoStore
        /\ fn[t].ok = <<FALSE>>
        /\ fn[t].f = NilFunc
        /\ Data(Value(fn[t].ctx, fn[t].id))[1] # Absent
        /\ Data(Value(fn[t].ctx, fn[t].id))[1] \in
               produced[Value(fn[t].ctx, fn[t].id)][1]

C12_StateInv ==
    /\ \A c \in Ctxs, id \in FuncIDs, f \in Loaders :
           Nearest(c, id) = NoCtx => FromContextLoaderResult(c, id, f) = LoaderFunc(f)
    /\ \A t \in Threads :
           fn[t].f.kind = "loader" =>
               /\ fn[t].f = LoaderFunc(fn[t].arg)
               /\ pc[t] \in {"idle", "direct"}
               /\ pc[t] = "idle" => ran[t][fn[t].arg] = made[t]
               /\ pc[t] = "direct" => ran[t][fn[t].arg] = made[t] - 1
               /\ \A l \in Loaders \ {fn[t].arg} : ran[t][l] = 0
               /\ outcome[t] \in {"none", "direct", "panic"}
               /\ outcome[t] = "direct" => ret[t] \in LoaderResults(fn[t].arg, key[t])

C12_Step ==
    \A t \in Threads :
        /\ (fn[t].f.kind = "loader" /\ pc'[t] # pc[t]) =>
               /\ stores' = stores
               /\ loads' = loads
               /\ produced' = produced
        /\ (fn'[t] # fn[t] /\ fn'[t].f.kind = "loader") => stores' = stores

\* C12: FromContextLoader of an identifier that no context of the chain binds
\* gives the loader it was handed; every call of that function runs the loader
\* once (n calls, n invocations), no call is answered from a cache, and neither
\* the lookup nor the calls create or change a cache.
C12_FallbackRunsLoaderEveryCall == [](C12_StateInv) /\ [][C12_Step]_vars

\* no cache exists; the function FromContextLoader gave was called twice with the
\* same key and the loader ran twice
C12_Witness ==
    \E t \in Threads :
        /\ Len(stores) = 0
        /\ fn[t].f.kind = "loader"
        /\ Nearest(fn[t].ctx, fn[t].id) = NoCtx
        /\ pc[t] = "idle"
        /\ outcome[t] = "direct"
        /\ made[t] = 2
        /\ ran[t][fn[t].arg] = 2

\* t's last lookup was FromContextLoader, of an identifier bound for the
\* loader's types
LoaderLookupBound(t) ==
    /\ fn[t].arg # NoLoader
    /\ Value(fn[t].ctx, fn[t].id) # NoStore
    /\ TypeOf(fn[t].arg) = TypeOf(BoundLoader(fn[t].ctx, fn[t].id))

\* C13: FromContextLoader of an identifier bound (for the types of the loader it
\* is handed) gives the cacheLoader of the bound cache: calls of it run the
\* bound cache's loader, once per key for sequential calls with a loader that
\* returns, later calls returning the cached value; the loader handed to
\* FromContextLoader is never run as a fallback.
C13_BoundLoaderLookupCaches ==
    /\ \A c \in Ctxs, id \in FuncIDs, f \in Loaders :
           (Value(c, id) # NoStore /\ TypeOf(f) = TypeOf(BoundLoader(c, id))) =>
               FromContextLoaderResult(c, id, f) = CacheLoaderOf(Value(c, id))
    /\ \A t \in Threads :
           LoaderLookupBound(t) =>
               LET s == Value(fn[t].ctx, fn[t].id) IN
               /\ fn[t].f = CacheLoaderOf(s)
               /\ pc[t] # "direct"
               /\ outcome[t] # "direct"
               /\ \A l \in Loaders \ {stores[s].loader} : ran[t][l] = 0
               /\ ran[t][stores[s].loader] <= made[t]
               /\ (SingleCaller(s) /\ fails[s] = 0) =>
                      \A k \in Keys :
                          /\ loads[s][k] <= 1
                          /\ Returned(t, s, k) =>
                                 /\ loads[s][k] = 1
                                 /\ ret[t] = Data(s)[k]
                                 /\ produced[s][k] = {ret[t]}

\* f2 is bound and FromContextLoader was handed f: two calls with the same key
\* ran f2 once, the second was a hit, and f did not run
C13_Witness ==
    \E t \in Threads, k \in Keys :
        /\ LoaderLookupBound(t)
        /\ fn[t].arg = "f"
        /\ BoundLoader(fn[t].ctx, fn[t].id) = "f2"
        /\ made[t] = 2
        /\ Returned(t, Self(t), k)
        /\ outcome[t] = "hit"
        /\ ret[t] = F2(k)
        /\ loads[Self(t)][k] = 1
        /\ ran[t]["f2"] = 1
        /\ ran[t]["f"] = 0

\* the identifier cache s is bound under
BoundUnder(s) == {ctxs[n].key : n \in {m \in BindingCtxs : ctxs[m].val = s}}

C14_StateInv ==
    /\ \A c \in Ctxs, id \in FuncIDs, kv \in Types :
           FromContextResult(c, id, kv)[2] =>
               /\ BoundUnder(FromContextResult(c, id, kv)[1].store) = {id}
               /\ FromContextResult(c, id, kv)[1].store = ctxs[Nearest(c, id)].val
    /\ \A c \in Ctxs, id \in FuncIDs, f \in Loaders :
           FromContextLoaderResult(c, id, f).kind = "cache" =>
               BoundUnder(FromContextLoaderResult(c, id, f).store) = {id}
    /\ \A t \in Threads :
           fn[t].f.kind = "cache" => BoundUnder(fn[t].f.store) = {fn[t].id}

C14_Step ==
    \A t \in Threads :
        (fn[t].f.kind = "cache" /\ pc'[t] # pc[t]) =>
            /\ \A s \in Stores \ {fn[t].f.store} :
                   /\ stores'[s] = stores[s]
                   /\ loads'[s] = loads[s]
                   /\ produced'[s] = produced[s]
            /\ \A l \in Loaders \ {stores[fn[t].f.store].loader} :
                   ran'[t][l] = ran[t][l]

\* C14: with several identifiers bound on one chain, in any order, a lookup of
\* A gives the cache bound under A, the nearest one, and never a cache bound
\* under another identifier; a call of the function looked up under A runs only
\* the loader of A's cache and changes only that cache.
C14_IdentifiersIndependent == [](C14_StateInv) /\ [][C14_Step]_vars

\* f is bound under one identifier and f2, of the same types, under another on
\* top of it; the function looked up under the first through the top context
\* ran f and stored in the first cache, and the second cache is untouched
C14_Witness ==
    \E t \in Threads :
        /\ Len(ctxs) = 3
        /\ ctxs[2].kind = "value" /\ ctxs[3].kind = "value"
        /\ ctxs[3].parent = 2
        /\ ctxs[2].key # ctxs[3].key
        /\ stores[1].loader = "f" /\ stores[2].loader = "f2"
        /\ fn[t].ctx = 3 /\ fn[t].id = ctxs[2].key
        /\ fn[t].f = CacheLoaderOf(1)
        /\ Returned(t, 1, 1)
        /\ outcome[t] = "miss"
        /\ Data(1)[1] = ret[t]
        /\ ran[t]["f"] = 1 /\ ran[t]["f2"] = 0
        /\ Data(2) = NoData
        /\ loads[2] = NoCount

\* C15: every entry of data is a value that an invocation of the loader for that
\* very key returned; a key whose invocations have all panicked or not yet
\* returned is absent, and so is one whose first value is returned but not stored.
C15_EntriesAreLoaderResults ==
    \A s \in Stores, k \in Keys :
        /\ Data(s)[k] # Absent =>
               /\ Data(s)[k] \in produced[s][k]
               /\ Data(s)[k] \in LoaderResults(stores[s].loader, k)
               /\ loads[s][k] >= 1
        /\ produced[s][k] = {} => Data(s)[k] = Absent
        /\ \A t \in Threads :
               (InCall(t, s, k) /\ pc[t] \in {"inLoader", "store"} /\ loads[s][k] = 1) =>
                   Data(s)[k] = Absent

\* the loader panicked for one key and is running for it again, the key is
\* absent, and the other key holds what the loader returned for it
C15_Witness ==
    \E t \in Threads, k1, k2 \in Keys :
        /\ k1 # k2
        /\ fails[1] = 1
        /\ loads[1][k1] = 2
        /\ produced[1][k1] = {}
        /\ InCall(t, 1, k1) /\ pc[t] = "inLoader"
        /\ Data(1)[k1] = Absent
        /\ Data(1)[k2] # Absent
        /\ produced[1][k2] = {Data(1)[k2]}

\* the goroutines between c.lock.Lock() and the deferred c.lock.Unlock()
MissSection(s) == {t \in Threads : pc[t] \in {"inLoader", "store"} /\ Self(t) = s}

\* the goroutines between c.lock.RLock() and c.lock.RUnlock()
ReadSection(s) == {t \in Threads : pc[t] = "read" /\ Self(t) = s}

\* C16: at most one goroutine per cache is between Lock and Unlock, whatever the
\* keys, it is the holder of the exclusive lock, and while it is there no
\* goroutine is between RLock and RUnlock of that cache.
C16_MissSectionExclusive ==
    \A s \in Stores :
        /\ Cardinality(MissSection(s)) <= 1
        /\ stores[s].readers = ReadSection(s)
        /\ MissSection(s) # {} =>
               /\ MissSection(s) = {stores[s].writer}
               /\ ReadSection(s) = {}
        /\ MissSection(s) = {} => stores[s].writer = NoThread

\* one goroutine runs the loader for one key while another, which missed on a
\* different key, waits for the exclusive lock
C16_Witness ==
    \E t, u \in Threads :
        /\ pc[t] = "inLoader" /\ Self(t) = 1
        /\ pc[u] = "lock" /\ Self(u) = 1
        /\ key[t] # key[u]
        /\ stores[1].writer = t

C17_StateInv ==
    \A t \in Threads :
        /\ (pc[t] = "idle" /\ outcome[t] = "hit") =>
               /\ ret[t] \in produced[Self(t)][key[t]]
               /\ Data(Self(t))[key[t]] # Absent
        /\ pc[t] \in {"inLoader", "store"} => stores[Self(t)].writer = t

C17_Step ==
    /\ \A t \in Threads :
           /\ (/\ pc[t] = "read"
               /\ Data(Self(t))[key[t]] # Absent
               /\ pc'[t] # "read") =>
                  /\ pc'[t] = "idle"
                  /\ outcome'[t] = "hit"
                  /\ ret'[t] = Data(Self(t))[key[t]]
                  /\ loads' = loads
                  /\ ran' = ran
                  /\ stores'[Self(t)].data = Data(Self(t))
                  /\ stores'[Self(t)].writer = stores[Self(t)].writer
           /\ (pc[t] = "read" /\ pc'[t] = "lock") => Data(Self(t))[key[t]] = Absent
           /\ (pc[t] # "inLoader" /\ pc'[t] = "inLoader") => pc[t] = "lock"
           /\ (pc[t] # "lock" /\ pc'[t] = "lock") => pc[t] = "read"
    /\ \A s \in Stores, k \in Keys :
           loads'[s][k] # loads[s][k] =>
               \E t \in Threads :
                   /\ pc[t] = "lock" /\ pc'[t] = "inLoader"
                   /\ Self(t) = s /\ key[t] = k
                   /\ loads'[s][k] = loads[s][k] + 1

\* C17: a call whose read under the shared lock finds k present returns the
\* stored value as a hit, without running the loader or taking the exclusive
\* lock; the loader runs only in calls that took the miss path, and a call takes
\* it only when its read found k absent.
C17_HitReturnsStoredValue == [](C17_StateInv) /\ [][C17_Step]_vars

\* one goroutine loaded k; another then called with k and got the stored value
\* as a hit, having run no loader
C17_Witness ==
    \E t, u \in Threads, k \in Keys :
        /\ t # u
        /\ Returned(u, 1, k) /\ outcome[u] = "miss"
        /\ Returned(t, 1, k) /\ outcome[t] = "hit"
        /\ made[t] = 1
        /\ ran[t] = NoRun
        /\ ret[t] = Data(1)[k]
        /\ loads[1][k] = 1

C18_StateInv ==
    \A t \in Threads :
        /\ pc[t] = "store" => v[t] \in produced[Self(t)][key[t]]
        /\ (pc[t] = "idle" /\ outcome[t] = "miss") =>
               ret[t] \in produced[Self(t)][key[t]]

C18_Step ==
    /\ \A t \in Threads :
           /\ (pc[t] = "lock" /\ pc'[t] # "lock") =>
                  /\ pc'[t] = "inLoader"
                  /\ stores'[Self(t)].writer = t
                  /\ loads'[Self(t)][key[t]] = loads[Self(t)][key[t]] + 1
                  /\ ran'[t][stores[Self(t)].loader] = ran[t][stores[Self(t)].loader] + 1
           /\ (pc[t] = "store" /\ pc'[t] # "store") =>
                  /\ stores[Self(t)].writer = t
                  /\ pc'[t] = "idle"
                  /\ outcome'[t] = "miss"
                  /\ ret'[t] = v[t]
                  /\ stores'[Self(t)].data[key[t]] = v[t]
                  /\ stores'[Self(t)].writer = NoThread
                  /\ loads' = loads
    /\ \A s \in Stores, k \in Keys :
           stores'[s].data[k] # Data(s)[k] =>
               /\ stores[s].writer # NoThread
               /\ pc[stores[s].writer] = "store"
               /\ key[stores[s].writer] = k
               /\ stores'[s].data[k] = v[stores[s].writer]

\* C18: a call that found k absent runs the loader once it holds the exclusive
\* lock, whatever data[k] holds by then; it returns what its own invocation gave
\* and stores it under k over any value already there. Only the holder of the
\* exclusive lock, the last to have acquired it, changes data, so after two
\* concurrent misses data[k] is the result of the later acquirer.
C18_NoRecheckLastWriterWins == [](C18_StateInv) /\ [][C18_Step]_vars

\* two goroutines missed on the same key; each ran the loader once and returned
\* its own, different, result, and the map holds one of the two
C18_Witness ==
    \E t, u \in Threads, k \in Keys :
        /\ t # u
        /\ Returned(t, 1, k) /\ outcome[t] = "miss"
        /\ Returned(u, 1, k) /\ outcome[u] = "miss"
        /\ made[t] = 1 /\ made[u] = 1
        /\ ran[t][stores[1].loader] = 1 /\ ran[u][stores[1].loader] = 1
        /\ loads[1][k] = 2
        /\ ret[t] # ret[u]
        /\ produced[1][k] = {ret[t], ret[u]}
        /\ Data(1)[k] = ret[u]

C19_StateInv ==
    \A t \in Threads :
        pc[t] = "idle" =>
            /\ outcome[t] \in {"none", "hit", "miss", "panic"}
            /\ \A s \in Stores : t \notin stores[s].readers /\ stores[s].writer # t

\* C19: with goroutines that are scheduled and loaders that return or panic,
\* every call of cacheLoader ends, by returning or with the loader's panic; a
\* goroutine whose call has ended holds neither lock of any cache.
C19_EveryCallEnds ==
    /\ [](C19_StateInv)
    /\ \A t \in Threads : (pc[t] # "idle") ~> (pc[t] = "idle")

\* two calls for one key have ended, one with the loader's panic and one with a
\* value, and the lock is free
C19_Witness ==
    \E t, u \in Threads :
        /\ t # u
        /\ pc[t] = "idle" /\ outcome[t] = "panic"
        /\ pc[u] = "idle" /\ outcome[u] = "miss"
        /\ key[t] = key[u]
        /\ made[t] = 1 /\ made[u] = 1
        /\ loads[1][key[t]] = 2
        /\ stores[1].writer = NoThread
        /\ stores[1].readers = {}

C20_Step ==
    /\ Len(stores') >= Len(stores)
    /\ Len(stores') > Len(stores) =>
           /\ Len(stores') = Len(stores) + 1
           /\ stores'[Len(stores')].data = NoData
    /\ \A s \in Stores, k \in Keys :
           /\ Data(s)[k] # Absent => stores'[s].data[k] # Absent
           /\ (Data(s)[k] = Absent /\ stores'[s].data[k] # Absent) =>
                  \E t \in Threads :
                      pc[t] = "store" /\ Self(t) = s /\ key[t] = k /\ pc'[t] = "idle"

\* C20: no step of a call, a binding, a lookup or a loader's panic removes a
\* cache or takes a key out of data: a key goes from absent to present, by the
\* store of a call for that key, and stays present; a new cache has no keys.
C20_KeysOnlyGrow == [][C20_Step]_vars

\* one key was stored, the loader then panicked for the other key, and a second
\* cache was bound: the first key is still there and the new cache is empty
C20_Witness ==
    \E t \in Threads, k1, k2 \in Keys :
        /\ k1 # k2
        /\ Len(stores) = 2
        /\ Data(1)[k1] # Absent
        /\ Data(1)[k2] = Absent
        /\ fails[1] = 1
        /\ loads[1][k2] = 1
        /\ pc[t] = "idle" /\ outcome[t] = "panic" /\ key[t] = k2
        /\ Data(2) = NoData

C21_Step ==
    \A t \in Threads :
        (fn[t].f.kind = "cache" /\ pc'[t] # pc[t]) =>
            /\ ctxs' = ctxs
            /\ Len(stores') = Len(stores)
            /\ \A s \in Stores : stores'[s].loader = stores[s].loader
            /\ \A s \in Stores \ {Self(t)} : stores'[s].data = Data(s)
            /\ \A k \in Keys \ {key'[t]} :
                   stores'[Self(t)].data[k] = Data(Self(t))[k]
            /\ (pc'[t] = "idle" /\ outcome'[t] = "hit") =>
                   stores'[Self(t)].data = Data(Self(t))
            /\ ~(pc[t] = "store" /\ pc'[t] = "idle") =>
                   stores'[Self(t)].data = Data(Self(t))
            /\ (pc[t] = "store" /\ pc'[t] = "idle") =>
                   stores'[Self(t)].data = [Data(Self(t)) EXCEPT ![key[t]] = v[t]]

\* C21: a call that ends as a hit leaves data as it was; a call for k that takes
\* the miss path changes data in its store step only, and there only the entry
\* of k, which it adds or overwrites; every other entry, the cache's loader, the
\* other caches and the contexts stay as they were through every step of a call.
C21_CallChangesOnlyItsKey == [][C21_Step]_vars

\* one key is cached; two goroutines then missed on the other key and the later
\* store overwrote the earlier one's value; the first key's entry is untouched
C21_Witness ==
    \E t, u \in Threads, k, k2 \in Keys :
        /\ t # u /\ k # k2
        /\ Returned(t, 1, k) /\ outcome[t] = "miss"
        /\ Returned(u, 1, k) /\ outcome[u] = "miss"
        /\ ret[t] # ret[u]
        /\ Data(1)[k] = ret[u]
        /\ loads[1][k] = 2
        /\ loads[1][k2] = 1
        /\ produced[1][k2] = {Data(1)[k2]}
        /\ stores[1].loader = "f"
        /\ ctxs[2].val = 1

TypeOK ==
    /\ Len(ctxs) \in 1..MaxCtx
    /\ Len(stores) < Len(ctxs)
    /\ \A t \in Threads : pc[t] \in {"idle", "rlock", "read", "lock", "inLoader",
                                     "store", "direct"}
====
